---- MODULE Spec2Model ----
(***************************************************************************)
(* Model of kjkombat/job_ranker: the two FastAPI handlers of src/api.py    *)
(* (extract_criteria, score_resumes with its per-file process_file tasks)  *)
(* and the schema/analysis helpers of src/llm.py.                          *)
(*                                                                         *)
(* Text is modelled as a sequence of one-character strings, so that        *)
(* str.endswith, os.path.splitext, str.lower, re.sub and int() are         *)
(* computed character by character as Python computes them.                *)
(***************************************************************************)
EXTENDS Integers, Sequences, FiniteSets, TLC

(***************************************************************************)
(* Bounds of the model.                                                    *)
(***************************************************************************)
\* largest number of uploaded files in one /score-resumes request
MaxFiles == 2
\* largest number of resumes whose analysis results are aggregated
MaxResumes == 2
MaxParagraphs == 2
MaxCells == 2

(***************************************************************************)
(* Characters and text helpers.                                            *)
(***************************************************************************)
UpperSeq == <<"A", "B", "C", "D", "E", "F", "G", "H", "I", "J", "K", "L", "M",
             "N", "O", "P", "Q", "R", "S", "T", "U", "V", "W", "X", "Y", "Z">>
LowerSeq == <<"a", "b", "c", "d", "e", "f", "g", "h", "i", "j", "k", "l", "m",
             "n", "o", "p", "q", "r", "s", "t", "u", "v", "w", "x", "y", "z">>
UpperChars == {UpperSeq[i] : i \in 1..Len(UpperSeq)}
LowerChars == {LowerSeq[i] : i \in 1..Len(LowerSeq)}
DigitChars == {"0", "1", "2", "3", "4", "5", "6", "7", "8", "9"}

\* str.lower() on one character
LowerChar(c) ==
    IF c \in UpperChars
    THEN LowerSeq[CHOOSE i \in 1..Len(UpperSeq) : UpperSeq[i] = c]
    ELSE c

\* str.lower()
Lower(s) == [i \in 1..Len(s) |-> LowerChar(s[i])]

\* str.endswith(suffix)
EndsWith(s, suf) ==
    /\ Len(s) >= Len(suf)
    /\ SubSeq(s, Len(s) - Len(suf) + 1, Len(s)) = suf

\* str.endswith((".pdf", ".docx"))
PdfSuffix == <<".", "p", "d", "f">>
DocxSuffix == <<".", "d", "o", "c", "x">>
SupportedName(filename) == EndsWith(filename, PdfSuffix) \/ EndsWith(filename, DocxSuffix)

\* os.path.splitext(name)[1]: from the last dot on, unless that dot only
\* follows leading dots of the name (then the name has no extension)
DotPositions(s) == {i \in 1..Len(s) : s[i] = "."}
LastDot(s) == CHOOSE i \in DotPositions(s) : \A j \in DotPositions(s) : j <= i
SplitExt(s) ==
    IF DotPositions(s) = {} THEN <<>>
    ELSE IF \A j \in 1..(LastDot(s) - 1) : s[j] = "." THEN <<>>
    ELSE SubSeq(s, LastDot(s), Len(s))

\* re.sub(r"[^a-zA-Z0-9]", "_", s)
IsAlnum(c) == c \in UpperChars \cup LowerChars \cup DigitChars
Normalize(s) == [i \in 1..Len(s) |-> IF IsAlnum(s[i]) THEN s[i] ELSE "_"]

\* ",".join(parts)
RECURSIVE JoinComma(_)
JoinComma(parts) ==
    IF parts = <<>> THEN <<>>
    ELSE IF Len(parts) = 1 THEN parts[1]
    ELSE parts[1] \o <<",">> \o JoinComma(Tail(parts))

\* int(value) on text: optional surrounding whitespace, an optional sign,
\* then digits that may be grouped by single underscores; anything else
\* raises ValueError (ok = FALSE)
IsSpace(c) == c \in {" ", "\n", "\t"}
RECURSIVE LStrip(_)
LStrip(s) == IF s # <<>> /\ IsSpace(s[1]) THEN LStrip(Tail(s)) ELSE s
RECURSIVE RStrip(_)
RStrip(s) == IF s # <<>> /\ IsSpace(s[Len(s)]) THEN RStrip(SubSeq(s, 1, Len(s) - 1)) ELSE s
Strip(s) == RStrip(LStrip(s))

DigitVal(c) ==
    CASE c = "0" -> 0 [] c = "1" -> 1 [] c = "2" -> 2 [] c = "3" -> 3
      [] c = "4" -> 4 [] c = "5" -> 5 [] c = "6" -> 6 [] c = "7" -> 7
      [] c = "8" -> 8 [] c = "9" -> 9

WellFormedDigits(d) ==
    /\ d # <<>>
    /\ \A i \in 1..Len(d) : d[i] \in DigitChars \cup {"_"}
    /\ d[1] # "_"
    /\ d[Len(d)] # "_"
    /\ \A i \in 1..(Len(d) - 1) : ~(d[i] = "_" /\ d[i + 1] = "_")

RECURSIVE DigitsValue(_, _)
DigitsValue(d, acc) ==
    IF d = <<>> THEN acc
    ELSE IF d[1] = "_" THEN DigitsValue(Tail(d), acc)
    ELSE DigitsValue(Tail(d), 10 * acc + DigitVal(d[1]))

ParseInt(text) ==
    LET s == Strip(text)
        signed == s # <<>> /\ s[1] \in {"+", "-"}
        d == IF signed THEN Tail(s) ELSE s
    IN IF WellFormedDigits(d)
       THEN [ok |-> TRUE,
             n |-> IF signed /\ s[1] = "-" THEN 0 - DigitsValue(d, 0) ELSE DigitsValue(d, 0)]
       ELSE [ok |-> FALSE, n |-> 0]

(***************************************************************************)
(* Values, ordered dictionaries and the scoring schema.                    *)
(***************************************************************************)
\* a Python value held by a score dictionary: text or a number
StrVal(chars) == [t |-> "str", s |-> chars, n |-> 0]
IntVal(num) == [t |-> "int", s |-> <<>>, n |-> num]

UsernameKey == <<"u", "s", "e", "r", "n", "a", "m", "e">>
TotalKey == <<"t", "o", "t", "a", "l">>
ErrorText == <<"E", "r", "r", "o", "r">>

\* a dict is a sequence of entries [k, v] in insertion order, keys distinct
Keys(d) == [i \in 1..Len(d) |-> d[i].k]
HasKey(d, key) == \E i \in 1..Len(d) : d[i].k = key
Get(d, key) == d[CHOOSE i \in 1..Len(d) : d[i].k = key].v
\* d[key] = val: an existing key keeps its position, a new key goes last
DictSet(d, key, val) ==
    IF HasKey(d, key)
    THEN [i \in 1..Len(d) |-> IF d[i].k = key THEN [k |-> key, v |-> val] ELSE d[i]]
    ELSE Append(d, [k |-> key, v |-> val])

RECURSIVE DictFromPairs(_, _)
DictFromPairs(pairs, acc) ==
    IF pairs = <<>> THEN acc
    ELSE DictFromPairs(Tail(pairs), DictSet(acc, pairs[1].k, pairs[1].v))

\* [re.sub(r"[^a-zA-Z0-9]", "_", s) for s in scoring_criteria]
scoring_criteria_cleaned(scoring_criteria) ==
    [i \in 1..Len(scoring_criteria) |-> Normalize(scoring_criteria[i])]

\* create_class_from_strings: the field definitions, name -> default, of
\* the dynamic model: {string: (str, "5") for string in strings}, then
\* field_definitions["username"] = (str, "")
create_class_from_strings(strings) ==
    DictSet(DictFromPairs([i \in 1..Len(strings) |->
                               [k |-> strings[i], v |-> StrVal(<<"5">>)]], <<>>),
            UsernameKey, StrVal(<<>>))

\* the schema llm_generate_score asks the analysis client to fill in
ScoringClass(scoring_criteria) ==
    create_class_from_strings(scoring_criteria_cleaned(scoring_criteria))

(***************************************************************************)
(* Post-processing of score_resumes: validation, totals and the report.    *)
(***************************************************************************)
InRange(num) == num >= 1 /\ num <= 5

\* variant: the loop without its "if key != 'username'" guard
ContributionCountingUsername(key, value) ==
    IF value.t = "str"
    THEN LET p == ParseInt(value.s)
         IN IF p.ok /\ InRange(p.n) THEN p.n ELSE 0
    ELSE IF InRange(value.n) THEN value.n ELSE 0

\* what one (key, value) of the loop adds to total_score
Contribution(key, value) ==
    IF key = UsernameKey THEN 0
    ELSE IF value.t = "str"
         THEN LET p == ParseInt(value.s)
              IN IF p.ok /\ InRange(p.n) THEN p.n ELSE 0
         ELSE IF InRange(value.n) THEN value.n ELSE 0

\* the value the loop leaves under key
Checked(key, value) ==
    IF key = UsernameKey THEN value
    ELSE IF value.t = "str"
         THEN LET p == ParseInt(value.s)
              IN IF p.ok /\ ~InRange(p.n) THEN StrVal(ErrorText) ELSE value
         ELSE IF InRange(value.n) THEN value ELSE StrVal(ErrorText)

RECURSIVE SumContributions(_, _)
SumContributions(d, i) ==
    IF i > Len(d) THEN 0
    ELSE Contribution(d[i].k, d[i].v) + SumContributions(d, i + 1)

\* one pass of "for score_dict in list_of_scores": the inner loop over
\* list(score_dict.items()) followed by score_dict["total"] = total_score
TotalScores(score_dict) ==
    DictSet([i \in 1..Len(score_dict) |->
                 [k |-> score_dict[i].k, v |-> Checked(score_dict[i].k, score_dict[i].v)]],
            TotalKey, IntVal(SumContributions(score_dict, 1)))

\* pd.DataFrame(list_of_scores).columns: the union of the keys of the
\* dictionaries in first-seen order
RECURSIVE AppendNew(_, _)
AppendNew(cols, keys) ==
    IF keys = <<>> THEN cols
    ELSE AppendNew(IF \E i \in 1..Len(cols) : cols[i] = keys[1] THEN cols
                   ELSE Append(cols, keys[1]), Tail(keys))
RECURSIVE Columns(_, _)
Columns(dicts, cols) ==
    IF dicts = <<>> THEN cols ELSE Columns(Tail(dicts), AppendNew(cols, Keys(dicts[1])))

\* a cell of the frame; a missing key is an empty cell
Missing == [t |-> "nan", s |-> <<>>, n |-> 0]
Cell(d, col) == IF HasKey(d, col) THEN Get(d, col) ELSE Missing

\* pd.DataFrame(list_of_scores).to_csv(index=False): the header line as
\* text, and under it one row of cells per dictionary
ToCsv(dicts) ==
    LET cols == Columns(dicts, <<>>)
    IN [columns |-> cols,
        header |-> JoinComma(cols),
        rows |-> [r \in 1..Len(dicts) |-> [c \in 1..Len(cols) |-> Cell(dicts[r], cols[c])]]]
NoCsv == [columns |-> <<>>, header |-> <<>>, rows |-> <<>>]

(***************************************************************************)
(* Inputs of a request.                                                    *)
(***************************************************************************)
\* names of uploaded files
NamePdf == <<"a", ".", "p", "d", "f">>
NameDocx == <<"b", ".", "d", "o", "c", "x">>
NameUpperPdf == <<"c", ".", "P", "D", "F">>
NameTxt == <<"d", ".", "t", "x", "t">>
NameBareDotPdf == <<".", "p", "d", "f">>
FileNames == {NamePdf, NameDocx, NameUpperPdf, NameTxt, NameBareDotPdf}

\* criterion labels
LabelEducation == <<"E", "d", "u">>
LabelCpp == <<"C", "+", "+">>
LabelCminus == <<"C", "-", "-">>

\* one element of the criteria array: a JSON string or a JSON number
JStr(chars) == [t |-> "str", s |-> chars]
JNum == [t |-> "num", s |-> <<>>]

\* the criteria form field: text that is not JSON at all, a JSON value
\* that is no array, or a JSON array of elements
DocMalformed == [kind |-> "malformed", items |-> <<>>]
DocObject == [kind |-> "object", items |-> <<>>]
DocArray(items) == [kind |-> "array", items |-> items]
CriteriaDocs ==
    {DocMalformed, DocObject, DocArray(<<>>),
     DocArray(<<JNum>>),
     DocArray(<<JStr(LabelEducation), JNum>>),
     DocArray(<<JStr(LabelEducation)>>),
     DocArray(<<JStr(LabelCpp), JStr(LabelEducation)>>)}
NoDoc == [kind |-> "none", items |-> <<>>]

\* json.loads(criteria): raises on text that is not JSON
JsonLoads(doc) == [ok |-> doc.kind # "malformed", value |-> doc]
\* isinstance(criteria_list, list)
IsList(value) == value.kind = "array"

\* criteria lists of text labels that reach the aggregation
ScoreCriteriaLists ==
    {<<JStr(LabelEducation)>>,
     <<JStr(LabelCpp), JStr(LabelEducation)>>,
     <<JStr(LabelCpp), JStr(LabelCminus)>>,
     <<JStr(TotalKey), JStr(LabelEducation)>>,
     <<JStr(UsernameKey), JStr(LabelEducation)>>}

\* texts the analysis client puts into a score field, and into username
ScoreTexts == {<<" ", "1">>, <<"5">>, <<"0">>, <<"6">>, <<"x">>}
NameTexts == {<<"A", "l">>, <<"3">>}

(***************************************************************************)
(* DOCX text extraction (api.py 134-138 and 312-322).  A document is its   *)
(* paragraphs' texts and its tables; a table is its rows, a row the texts  *)
(* of its cells.                                                           *)
(***************************************************************************)
Newline == "\n"
Space == " "

\* "\n".join(parts)
RECURSIVE JoinNewline(_)
JoinNewline(parts) ==
    IF parts = <<>> THEN <<>>
    ELSE IF Len(parts) = 1 THEN parts[1]
    ELSE parts[1] \o <<Newline>> \o JoinNewline(Tail(parts))

\* lines 136-138: extract_criteria reads doc.paragraphs and nothing else
CriteriaDocxText(doc) == JoinNewline(doc.paragraphs)

\* lines 320-321: for cell in row.cells: text += cell.text + " "
RECURSIVE CellsText(_)
CellsText(row) ==
    IF row = <<>> THEN <<>>
    ELSE row[1] \o <<Space>> \o CellsText(Tail(row))

\* lines 319-322: for row in table.rows: the cells, then text += "\n"
RECURSIVE RowsText(_)
RowsText(table) ==
    IF table = <<>> THEN <<>>
    ELSE CellsText(table[1]) \o <<Newline>> \o RowsText(Tail(table))

\* line 318: for table in doc.tables
RECURSIVE TablesText(_)
TablesText(tables) ==
    IF tables = <<>> THEN <<>>
    ELSE RowsText(tables[1]) \o TablesText(Tail(tables))

\* lines 314-322: process_file reads the paragraphs, then the tables
ResumeDocxText(doc) == JoinNewline(doc.paragraphs) \o TablesText(doc.tables)

\* the documents handed to the extraction
ParagraphTexts == {<<"p">>, <<>>}
CellTexts == {<<"c">>, <<"d">>}
ParagraphLists == UNION {[1..n -> ParagraphTexts] : n \in 0..MaxParagraphs}
Rows == UNION {[1..n -> CellTexts] : n \in 1..MaxCells}
Tables == {<<r>> : r \in Rows} \cup {<<r, r>> : r \in Rows}
TableLists == {<<>>} \cup {<<t>> : t \in Tables} \cup {<<t, t>> : t \in Tables}
Documents == [paragraphs : ParagraphLists, tables : TableLists]
NoDocument == [paragraphs |-> <<>>, tables |-> <<>>]

(***************************************************************************)
(* State.                                                                  *)
(***************************************************************************)
VARIABLES
    endpoint,        \* "score" (POST /score-resumes) or "extract" (POST /extract-criteria)
    files,           \* the uploaded files' names, in upload order
    criteria,        \* the criteria form field of /score-resumes
    hpc,             \* the handler: "start", "reading", "gathering", "responded"
    criteria_list,   \* json.loads(criteria) once validated
    tpc,             \* per file, its task: "none" (not created), "new",
                     \* "reading", "returned", "raised"
    temp,            \* per file, its temporary file: "none", "exists", "deleted"
    reads,           \* per file: calls of file.read()
    llm_calls,       \* per file: calls of client.chat.parse
    extractor,       \* per file: the extractor the extension routed to
    texc,            \* per file: the exception that ended its processing
    gathered,        \* what asyncio.gather returned (dict(scores) per file)
    list_of_scores,  \* the dictionaries after the totals loop
    response,        \* the HTTP response: status 0 while there is none
    document,        \* the DOCX document whose text is extracted
    criteria_text,   \* <<text>> once extract_criteria has extracted it
    resume_text      \* <<text>> once process_file has extracted it

docvars == <<document, criteria_text, resume_text>>

vars == <<endpoint, files, criteria, hpc, criteria_list, tpc, temp, reads,
          llm_calls, extractor, texc, gathered, list_of_scores, response,
          document, criteria_text, resume_text>>

NoResponse == [status |-> 0, detail |-> "none", csv |-> NoCsv, criteria |-> <<>>]
ErrorResponse(status, detail) ==
    [status |-> status, detail |-> detail, csv |-> NoCsv, criteria |-> <<>>]
Idx == DOMAIN files

(***************************************************************************)
(* score_resumes: validation (api.py 220-247).                             *)
(***************************************************************************)
\* variant: the file loop of lines 237-242 looking at the first file only
ValidateScoreFirstFileOnly(doc, fs) ==
    IF ~JsonLoads(doc).ok THEN "JSONDecodeError"
    ELSE IF ~IsList(JsonLoads(doc).value) THEN "criteria_not_list"
    ELSE IF Len(JsonLoads(doc).value.items) < 1 THEN "no_criteria"
    ELSE IF ~SupportedName(fs[1]) THEN "unsupported_file"
    ELSE "ok"

\* what lines 222-242 raise for a request: "ok" when nothing is raised
\* and line 246 goes on to create one task per file
ValidateScore(doc, fs) ==
    IF ~JsonLoads(doc).ok THEN "JSONDecodeError"
    ELSE IF ~IsList(JsonLoads(doc).value) THEN "criteria_not_list"
    ELSE IF Len(JsonLoads(doc).value.items) < 1 THEN "no_criteria"
    ELSE IF \E i \in DOMAIN fs : ~SupportedName(fs[i]) THEN "unsupported_file"
    ELSE "ok"

\* the status code of the HTTPException that lines 225, 231 and 239 raise
RaisedStatus(err) == IF err = "JSONDecodeError" THEN 0 ELSE 400

\* "except Exception as e: raise HTTPException(status_code=500, ...)" wraps
\* whatever the try block raised; HTTPException is itself an Exception
ScoreExceptStatus(raised) == 500

ScoreValidate ==
    /\ endpoint = "score"
    /\ hpc = "start"
    /\ LET err == ValidateScore(criteria, files)
       IN IF err = "ok"
          THEN /\ criteria_list' = JsonLoads(criteria).value.items
               /\ tpc' = [i \in Idx |-> "new"]
               /\ hpc' = "gathering"
               /\ UNCHANGED response
          ELSE /\ response' = ErrorResponse(ScoreExceptStatus(RaisedStatus(err)), err)
               /\ hpc' = "responded"
               /\ UNCHANGED <<criteria_list, tpc>>
    /\ UNCHANGED docvars
    /\ UNCHANGED <<endpoint, files, criteria, temp, reads, llm_calls,
                   extractor, texc, gathered, list_of_scores>>

(***************************************************************************)
(* process_file (api.py 291-329) and llm_generate_score (llm.py 44-71).    *)
(***************************************************************************)
\* file_extension = os.path.splitext(file.filename)[1].lower() and the
\* if/elif on it
ExtractorFor(filename) ==
    LET file_extension == Lower(SplitExt(filename))
    IN IF file_extension = PdfSuffix THEN "pdf"
       ELSE IF file_extension = DocxSuffix THEN "docx"
       ELSE "none"

\* llm_generate_score(text, criteria_list): re.sub raises TypeError on an
\* element that is no str, before the client is called; client.chat.parse
\* is called once and raises or returns the parsed object
\* variant: a failed call of the client is made a second time
LlmGenerateScoreRetrying(crit, fault) ==
    IF \E i \in DOMAIN crit : crit[i].t # "str" THEN [exc |-> "criteria_type", calls |-> 0]
    ELSE IF fault = "analysis" THEN [exc |-> "analysis", calls |-> 2]
    ELSE [exc |-> "none", calls |-> 1]
LlmGenerateScore(crit, fault) ==
    IF \E i \in DOMAIN crit : crit[i].t # "str" THEN [exc |-> "criteria_type", calls |-> 0]
    ELSE IF fault = "analysis" THEN [exc |-> "analysis", calls |-> 1]
    ELSE [exc |-> "none", calls |-> 1]

\* "await llm_generate_score(...)" / "await llm_response(...)": both are
\* plain def functions that return the parsed object, which is no
\* awaitable, so the await expression raises TypeError
AnalysisResultAwaitable == FALSE

\* process_file from the resumption of "await file.read()" to its end:
\* the exception it ends with ("none": it returns), what is left of the
\* temporary file, the client calls made and the extractor used.  The
\* with block (293-298) is outside the try/finally (300-329).
ProcessFileBody(filename, crit, fault) ==
    IF fault \in {"read", "write"}
    THEN [exc |-> fault, temp |-> "exists", calls |-> 0, extractor |-> "none"]
    ELSE LET ex == ExtractorFor(filename)
         IN IF ex # "none" /\ fault = "extract"
            THEN [exc |-> "extract", temp |-> "deleted", calls |-> 0, extractor |-> ex]
            ELSE IF ex = "none"
            THEN [exc |-> "UnboundLocalError", temp |-> "deleted", calls |-> 0,
                  extractor |-> ex]
            ELSE LET r == LlmGenerateScore(crit, fault)
                 IN [exc |-> IF r.exc = "none" /\ ~AnalysisResultAwaitable
                             THEN "await" ELSE r.exc,
                     temp |-> "deleted", calls |-> r.calls, extractor |-> ex]

\* the instances of the scoring class: every field holds text
AllTexts == ScoreTexts \cup NameTexts
Instances(schema) ==
    {[i \in 1..Len(schema) |-> [k |-> schema[i].k, v |-> StrVal(f[i])]] :
        f \in {g \in [1..Len(schema) -> AllTexts] :
                  \A i \in 1..Len(schema) :
                      g[i] \in (IF schema[i].k = UsernameKey THEN NameTexts ELSE ScoreTexts)}}

TextCriteria(crit) == [i \in 1..Len(crit) |-> crit[i].s]

\* the first turn of task i: NamedTemporaryFile(...) and the call of
\* file.read(), at which the task is suspended (293-296).  gather starts
\* the tasks in list order.
ProcessFileStart(i) ==
    /\ endpoint = "score"
    /\ hpc \in {"gathering", "responded"}
    /\ tpc[i] = "new"
    /\ \A j \in Idx : j < i => tpc[j] # "new"
    /\ \E fault \in {"none", "mktemp"} :
          IF fault = "mktemp"
          THEN /\ tpc' = [tpc EXCEPT ![i] = "raised"]
               /\ texc' = [texc EXCEPT ![i] = "mktemp"]
               /\ UNCHANGED <<temp, reads>>
          ELSE /\ tpc' = [tpc EXCEPT ![i] = "reading"]
               /\ temp' = [temp EXCEPT ![i] = "exists"]
               /\ reads' = [reads EXCEPT ![i] = @ + 1]
               /\ UNCHANGED texc
    /\ UNCHANGED docvars
    /\ UNCHANGED <<endpoint, files, criteria, hpc, criteria_list, llm_calls,
                   extractor, gathered, list_of_scores, response>>

\* the rest of task i, in one turn: nothing after file.read() suspends
ProcessFileFinish(i) ==
    /\ endpoint = "score"
    /\ tpc[i] = "reading"
    /\ \E fault \in {"none", "read", "write", "extract", "analysis"} :
          LET r == ProcessFileBody(files[i], criteria_list, fault)
          IN /\ temp' = [temp EXCEPT ![i] = r.temp]
             /\ llm_calls' = [llm_calls EXCEPT ![i] = @ + r.calls]
             /\ extractor' = [extractor EXCEPT ![i] = r.extractor]
             /\ texc' = [texc EXCEPT ![i] = r.exc]
             /\ IF r.exc = "none"
                THEN /\ tpc' = [tpc EXCEPT ![i] = "returned"]
                     /\ \E scores \in Instances(ScoringClass(TextCriteria(criteria_list))) :
                           gathered' = [gathered EXCEPT ![i] = scores]
                ELSE /\ tpc' = [tpc EXCEPT ![i] = "raised"]
                     /\ UNCHANGED gathered
    /\ UNCHANGED docvars
    /\ UNCHANGED <<endpoint, files, criteria, hpc, criteria_list, reads,
                   list_of_scores, response>>

(***************************************************************************)
(* score_resumes after "await asyncio.gather"  (api.py 247-288).    *)
(***************************************************************************)
\* gather without return_exceptions: the awaiting handler is resumed with
\* the first exception as soon as one task has raised, and with the list
\* of results, in task order, once every task has returned
\* variant: the handler goes on without waiting for the tasks
GatherNotAwaited == TRUE
GatherDone == (\E i \in Idx : tpc[i] = "raised") \/ (\A i \in Idx : tpc[i] = "returned")
\* variant: a failed task's exception is dropped and its slot left empty
GatherDropsExceptions == FALSE
GatherRaises == \E i \in Idx : tpc[i] = "raised"

\* lines 249-284 on the list gather returned
Aggregate(results) ==
    LET scored == [i \in 1..Len(results) |-> TotalScores(results[i])]
    IN [scores |-> scored,
        response |-> [status |-> 200, detail |-> "success", csv |-> ToCsv(scored),
                      criteria |-> <<>>]]

ScoreResume ==
    /\ endpoint = "score"
    /\ hpc = "gathering"
    /\ GatherDone
    /\ IF GatherRaises
       THEN /\ response' = ErrorResponse(ScoreExceptStatus(0), "task_exception")
            /\ UNCHANGED list_of_scores
       ELSE LET agg == Aggregate(gathered)
            IN /\ list_of_scores' = agg.scores
               /\ response' = agg.response
    /\ hpc' = "responded"
    /\ UNCHANGED docvars
    /\ UNCHANGED <<endpoint, files, criteria, criteria_list, tpc, temp, reads,
                   llm_calls, extractor, texc, gathered>>

(***************************************************************************)
(* extract_criteria (api.py 99-160) and llm_response (llm.py 23-41).       *)
(***************************************************************************)
\* the try block from the resumption of "await file.read()" on, and the
\* except clause, which unlinks only if temp_file_path was assigned (121)
ExtractBody(filename, fault) ==
    IF fault \in {"read", "write"}
    THEN [exc |-> fault, temp |-> "exists", calls |-> 0, extractor |-> "none"]
    ELSE LET ex == ExtractorFor(filename)
         IN IF ex # "none" /\ fault = "extract"
            THEN [exc |-> "extract", temp |-> "deleted", calls |-> 0, extractor |-> ex]
            ELSE IF ex = "none"
            THEN [exc |-> "UnboundLocalError", temp |-> "deleted", calls |-> 0,
                  extractor |-> ex]
            ELSE IF fault = "analysis"
            THEN [exc |-> "analysis", temp |-> "deleted", calls |-> 1, extractor |-> ex]
            ELSE [exc |-> IF AnalysisResultAwaitable THEN "none" ELSE "await",
                  temp |-> "deleted", calls |-> 1, extractor |-> ex]

\* the criteria lists llm_response can return: ExtractedCriteria declares
\* "criteria: list[str]" and nothing about the length
LabelList(n) == [i \in 1..n |-> LabelEducation]
ExtractedLists == {LabelList(n) : n \in {0, 3, 5, 6}}

\* lines 143-152: the success response, "criteria": criteria.criteria
CriteriaResponse(extracted) ==
    [status |-> 200, detail |-> "success", csv |-> NoCsv, criteria |-> extracted]

\* lines 109-119: the extension check, outside the try block, then the
\* temporary file and the call of file.read()
ExtractStart ==
    /\ endpoint = "extract"
    /\ hpc = "start"
    /\ IF ~SupportedName(files[1])
       THEN /\ response' = ErrorResponse(400, "unsupported_file")
            /\ hpc' = "responded"
            /\ UNCHANGED <<temp, reads, texc>>
       ELSE \E fault \in {"none", "mktemp"} :
               IF fault = "mktemp"
               THEN /\ response' = ErrorResponse(500, "exception")
                    /\ hpc' = "responded"
                    /\ texc' = [texc EXCEPT ![1] = "mktemp"]
                    /\ UNCHANGED <<temp, reads>>
               ELSE /\ temp' = [temp EXCEPT ![1] = "exists"]
                    /\ reads' = [reads EXCEPT ![1] = @ + 1]
                    /\ hpc' = "reading"
                    /\ UNCHANGED <<response, texc>>
    /\ UNCHANGED docvars
    /\ UNCHANGED <<endpoint, files, criteria, criteria_list, tpc, llm_calls,
                   extractor, gathered, list_of_scores>>

\* lines 119-160
ExtractFinish ==
    /\ endpoint = "extract"
    /\ hpc = "reading"
    /\ \E fault \in {"none", "read", "write", "extract", "analysis"} :
          LET r == ExtractBody(files[1], fault)
          IN /\ temp' = [temp EXCEPT ![1] = r.temp]
             /\ llm_calls' = [llm_calls EXCEPT ![1] = @ + r.calls]
             /\ extractor' = [extractor EXCEPT ![1] = r.extractor]
             /\ texc' = [texc EXCEPT ![1] = r.exc]
             /\ IF r.exc = "none"
                THEN \E extracted \in ExtractedLists :
                        response' = CriteriaResponse(extracted)
                ELSE response' = ErrorResponse(500, "exception")
    /\ hpc' = "responded"
    /\ UNCHANGED docvars
    /\ UNCHANGED <<endpoint, files, criteria, criteria_list, tpc, reads,
                   gathered, list_of_scores>>

(***************************************************************************)
(* The requests: one request per behaviour.                                *)
(***************************************************************************)
FileLists(n) == UNION {[1..m -> FileNames] : m \in 1..n}

Fresh(fs) ==
    /\ tpc = [i \in DOMAIN fs |-> "none"]
    /\ temp = [i \in DOMAIN fs |-> "none"]
    /\ reads = [i \in DOMAIN fs |-> 0]
    /\ llm_calls = [i \in DOMAIN fs |-> 0]
    /\ extractor = [i \in DOMAIN fs |-> "none"]
    /\ texc = [i \in DOMAIN fs |-> "none"]
    /\ gathered = [i \in DOMAIN fs |-> <<>>]
    /\ list_of_scores = <<>>
    /\ response = NoResponse
    /\ document = NoDocument
    /\ criteria_text = <<>>
    /\ resume_text = <<>>

Init ==
    /\ endpoint \in {"score", "extract"}
    /\ files \in FileLists(IF endpoint = "score" THEN MaxFiles ELSE 1)
    /\ criteria \in (IF endpoint = "score" THEN CriteriaDocs ELSE {NoDoc})
    /\ hpc = "start"
    /\ criteria_list = <<>>
    /\ Fresh(files)

Next ==
    \/ ScoreValidate
    \/ \E i \in Idx : ProcessFileStart(i)
    \/ \E i \in Idx : ProcessFileFinish(i)
    \/ ScoreResume
    \/ ExtractStart
    \/ ExtractFinish

Spec == Init /\ [][Next]_vars

\* the event loop runs every task it was handed until the task ends, and
\* resumes the handler once gather is done
SpecFair ==
    /\ Spec
    /\ WF_vars(ScoreResume)
    /\ \A i \in 1..MaxFiles :
           /\ WF_vars(i \in Idx /\ ProcessFileStart(i))
           /\ WF_vars(i \in Idx /\ ProcessFileFinish(i))

(***************************************************************************)
(* The aggregation of score_resumes (api.py 249-284) and the success      *)
(* path of extract_criteria (api.py 141-152) taken on their own.           *)
(* Under Spec no task ever returns (AnalysisResultAwaitable), so these     *)
(* blocks are not reached there.  SpecScore starts score_resumes at line   *)
(* 247 and hands it, as the result of gather, every list of dictionaries   *)
(* that dict(scores) yields for instances of the request's scoring class;  *)
(* it starts extract_criteria at line 141 and hands it every list that     *)
(* llm_response can return.                                                *)
(***************************************************************************)
InitAtGather ==
    /\ endpoint = "score"
    /\ files \in {[i \in 1..n |-> NamePdf] : n \in 1..MaxResumes}
    /\ criteria_list \in ScoreCriteriaLists
    /\ criteria = DocArray(criteria_list)
    /\ hpc = "gathering"
    /\ tpc = [i \in DOMAIN files |-> "returned"]
    /\ temp = [i \in DOMAIN files |-> "deleted"]
    /\ reads = [i \in DOMAIN files |-> 1]
    /\ llm_calls = [i \in DOMAIN files |-> 1]
    /\ extractor = [i \in DOMAIN files |-> "pdf"]
    /\ texc = [i \in DOMAIN files |-> "none"]
    /\ gathered = [i \in DOMAIN files |-> <<>>]
    /\ list_of_scores = <<>>
    /\ response = NoResponse
    /\ document = NoDocument
    /\ criteria_text = <<>>
    /\ resume_text = <<>>

ScoreAggregate ==
    /\ endpoint = "score"
    /\ hpc = "gathering"
    /\ \E results \in [Idx -> Instances(ScoringClass(TextCriteria(criteria_list)))] :
          LET agg == Aggregate(results)
          IN /\ gathered' = results
             /\ list_of_scores' = agg.scores
             /\ response' = agg.response
    /\ hpc' = "responded"
    /\ UNCHANGED docvars
    /\ UNCHANGED <<endpoint, files, criteria, criteria_list, tpc, temp, reads,
                   llm_calls, extractor, texc>>

\* extract_criteria at line 141: the text is extracted, the client has
\* been called and the temporary file is still there
InitAtAnalysis ==
    /\ endpoint = "extract"
    /\ files \in {<<NamePdf>>, <<NameDocx>>}
    /\ criteria = NoDoc
    /\ criteria_list = <<>>
    /\ hpc = "reading"
    /\ tpc = [i \in DOMAIN files |-> "none"]
    /\ temp = [i \in DOMAIN files |-> "exists"]
    /\ reads = [i \in DOMAIN files |-> 1]
    /\ llm_calls = [i \in DOMAIN files |-> 1]
    /\ extractor = [i \in DOMAIN files |-> ExtractorFor(files[i])]
    /\ texc = [i \in DOMAIN files |-> "none"]
    /\ gathered = [i \in DOMAIN files |-> <<>>]
    /\ list_of_scores = <<>>
    /\ response = NoResponse
    /\ document = NoDocument
    /\ criteria_text = <<>>
    /\ resume_text = <<>>

InitScore == InitAtGather \/ InitAtAnalysis

\* lines 141-152 with the list llm_response returned
ExtractRespond ==
    /\ endpoint = "extract"
    /\ hpc = "reading"
    /\ \E extracted \in ExtractedLists : response' = CriteriaResponse(extracted)
    /\ temp' = [temp EXCEPT ![1] = "deleted"]
    /\ hpc' = "responded"
    /\ UNCHANGED docvars
    /\ UNCHANGED <<endpoint, files, criteria, criteria_list, tpc, reads, llm_calls,
                   extractor, texc, gathered, list_of_scores>>

NextScore == ScoreAggregate \/ ExtractRespond

SpecScore == InitScore /\ [][NextScore]_vars

(***************************************************************************)
(* Properties.                                                             *)
(***************************************************************************)
Responded == hpc = "responded"
Finished(i) == tpc[i] \in {"returned", "raised"}

\* the criteria field is a JSON array of at least one string
CriteriaWellFormed ==
    /\ criteria.kind = "array"
    /\ Len(criteria.items) >= 1
    /\ \A j \in DOMAIN criteria.items : criteria.items[j].t = "str"

\* extraction and the analysis call both succeeded for file i: the task
\* got as far as client.chat.parse and the client returned
Analysed(i) == Finished(i) /\ llm_calls[i] = 1 /\ texc[i] \in {"none", "await"}

\* the value v counts for, as the claims word it
ValidScore(v) ==
    IF v.t = "str"
    THEN IF ParseInt(v.s).ok /\ ParseInt(v.s).n \in 1..5 THEN ParseInt(v.s).n ELSE 0
    ELSE IF v.n \in 1..5 THEN v.n ELSE 0
ParsesAsInteger(v) == v.t = "int" \/ ParseInt(v.s).ok
RECURSIVE SumValid(_, _)
SumValid(d, i) ==
    IF i > Len(d) THEN 0
    ELSE (IF d[i].k = UsernameKey THEN 0 ELSE ValidScore(d[i].v)) + SumValid(d, i + 1)

\* C1: for a well-formed request whose every file was extracted and
\* analysed successfully, score_resumes answers 200 with a report of
\* exactly one row per input file, row i being the record of file i.
C1_OneRowPerFileInOrder ==
    (/\ endpoint = "score"
     /\ Responded
     /\ CriteriaWellFormed
     /\ \A i \in Idx : SupportedName(files[i]) /\ Analysed(i))
    => /\ response.status = 200
       /\ Len(response.csv.rows) = Len(files)
       /\ \A i \in Idx : list_of_scores[i] = TotalScores(gathered[i])

C3_TotalExcludesUsername ==
    (endpoint = "score" /\ response.status = 200) =>
        \A i \in Idx :
            /\ Get(list_of_scores[i], TotalKey) = IntVal(SumValid(gathered[i], 1))
            /\ Get(list_of_scores[i], UsernameKey) = Get(gathered[i], UsernameKey)
\* a record whose username reads as an in-range integer was totalled
C3_Witness ==
    /\ endpoint = "score"
    /\ response.status = 200
    /\ \E i \in Idx :
          /\ Get(gathered[i], UsernameKey) = StrVal(<<"3">>)
          /\ Get(list_of_scores[i], TotalKey).n > 0

\* C4: /score-resumes answers 400 whenever criteria is not a JSON array of
\* at least one string or a file has an unsupported extension.
C4_ValidationIs400 ==
    (/\ endpoint = "score"
     /\ Responded
     /\ (~CriteriaWellFormed \/ \E i \in Idx : ~SupportedName(files[i])))
    => response.status = 400

\* C5: a request that fails validation (criteria no list or empty, or a
\* file at any position with an unsupported extension) processes nothing:
\* no temporary file is created, no upload read, no analysis call made, on
\* either endpoint.
FailsValidation ==
    \/ /\ endpoint = "score"
       /\ \/ criteria.kind = "object"
          \/ criteria.kind = "array" /\ criteria.items = <<>>
          \/ \E i \in Idx : ~SupportedName(files[i])
    \/ /\ endpoint = "extract"
       /\ ~SupportedName(files[1])
C5_NoProcessingOnValidationFailure ==
    FailsValidation =>
        \A i \in Idx : temp[i] = "none" /\ reads[i] = 0 /\ llm_calls[i] = 0 /\ tpc[i] = "none"
\* a two-file request was refused for its second file only
C5_Witness ==
    /\ endpoint = "score"
    /\ Responded
    /\ CriteriaWellFormed
    /\ Len(files) = 2
    /\ SupportedName(files[1])
    /\ ~SupportedName(files[2])
    /\ response.status >= 400

\* C6: once one resume of a batch has failed, the response of
\* score_resumes is a single failure: no report, no rows.
C6_NoPartialBatch ==
    (/\ endpoint = "score"
     /\ Responded
     /\ \E i \in Idx : tpc[i] = "raised")
    => /\ response.status = 500
       /\ response.csv = NoCsv
       /\ list_of_scores = <<>>
\* the analysis client failed for one resume and answered for another
C6_Witness ==
    /\ endpoint = "score"
    /\ Responded
    /\ \E i, j \in Idx : i # j /\ texc[i] = "analysis" /\ Analysed(j)

ExtensionSupported(filename) == Lower(SplitExt(filename)) \in {PdfSuffix, DocxSuffix}
C8_CaseInsensitiveExtension ==
    (Responded /\ (endpoint = "score" => CriteriaWellFormed))
    => /\ (response.detail = "unsupported_file")
             <=> (\E i \in Idx : ~ExtensionSupported(files[i]))
       /\ \A i \in Idx : extractor[i] # "none" =>
             Lower(SplitExt(files[i])) =
                 (IF extractor[i] = "pdf" THEN PdfSuffix ELSE DocxSuffix)

\* C9: when /extract-criteria responds, no temporary file it created is
\* left on disk.
C9_ExtractLeavesNoTempFile ==
    (endpoint = "extract" /\ Responded) => temp[1] # "exists"

\* C10: a non-empty criteria array holding an element that is no text is
\* refused before any processing: no temporary file, no analysis call.
C10_NonTextCriterionRefused ==
    (/\ endpoint = "score"
     /\ criteria.kind = "array"
     /\ \E j \in DOMAIN criteria.items : criteria.items[j].t # "str")
    => \A i \in Idx : temp[i] = "none" /\ llm_calls[i] = 0


(***************************************************************************)
(* The DOCX branches of the two handlers taken on their own: one document  *)
(* is read by extract_criteria (lines 134-138) and by process_file (lines  *)
(* 312-322).                                                               *)
(***************************************************************************)
InitDocx ==
    /\ endpoint = "extract"
    /\ files = <<NameDocx>>
    /\ criteria = NoDoc
    /\ hpc = "start"
    /\ criteria_list = <<>>
    /\ tpc = [i \in DOMAIN files |-> "none"]
    /\ temp = [i \in DOMAIN files |-> "none"]
    /\ reads = [i \in DOMAIN files |-> 0]
    /\ llm_calls = [i \in DOMAIN files |-> 0]
    /\ extractor = [i \in DOMAIN files |-> "none"]
    /\ texc = [i \in DOMAIN files |-> "none"]
    /\ gathered = [i \in DOMAIN files |-> <<>>]
    /\ list_of_scores = <<>>
    /\ response = NoResponse
    /\ document \in Documents
    /\ criteria_text = <<>>
    /\ resume_text = <<>>

nondocvars == <<endpoint, files, criteria, hpc, criteria_list, tpc, temp, reads,
               llm_calls, extractor, texc, gathered, list_of_scores, response>>

ExtractCriteriaText ==
    /\ criteria_text = <<>>
    /\ criteria_text' = <<CriteriaDocxText(document)>>
    /\ UNCHANGED <<document, resume_text>>
    /\ UNCHANGED nondocvars

ExtractResumeText ==
    /\ resume_text = <<>>
    /\ resume_text' = <<ResumeDocxText(document)>>
    /\ UNCHANGED <<document, criteria_text>>
    /\ UNCHANGED nondocvars

NextDocx == ExtractCriteriaText \/ ExtractResumeText

SpecDocx == InitDocx /\ [][NextDocx]_vars

Contains(text, part) ==
    \E i \in 1..(Len(text) - Len(part) + 1) : SubSeq(text, i, i + Len(part) - 1) = part

CellsOf(doc) ==
    UNION {UNION {{doc.tables[t][r][c] : c \in DOMAIN doc.tables[t][r]}
                  : r \in DOMAIN doc.tables[t]}
           : t \in DOMAIN doc.tables}

\* C12: the text extracted from a DOCX holds the text of every table cell,
\* on the criteria path and on the scoring path, and the two paths extract
\* the same text from the same document.
C12_DocxTextSameOnBothPaths ==
    /\ criteria_text # <<>> =>
           \A cell \in CellsOf(document) : Contains(criteria_text[1], cell)
    /\ resume_text # <<>> =>
           \A cell \in CellsOf(document) : Contains(resume_text[1], cell)
    /\ (criteria_text # <<>> /\ resume_text # <<>>) => criteria_text = resume_text


\* the name the claims give the field of a label: every character outside
\* [A-Za-z0-9] replaced by an underscore, the others and the length kept
NamedBy(name, label) ==
    /\ Len(name) = Len(label)
    /\ \A c \in 1..Len(label) :
           name[c] = (IF label[c] \in UpperChars \cup LowerChars \cup DigitChars
                      THEN label[c] ELSE "_")
ScoreFields(schema) == {j \in 1..Len(schema) : schema[j].k # UsernameKey}

\* C13: the schema built for a scoring request has exactly one score field
\* per criterion of the list, named by the normalized label and defaulting
\* to "5", plus a username field defaulting to the empty string; the
\* records the analysis returns have these fields.
C13_OneFieldPerCriterion ==
    (endpoint = "score" /\ response.status = 200) =>
        LET labels == TextCriteria(criteria_list)
            schema == ScoringClass(labels)
        IN /\ Cardinality(ScoreFields(schema)) = Len(labels)
           /\ \A c \in 1..Len(labels) :
                  \E j \in ScoreFields(schema) :
                      /\ NamedBy(schema[j].k, labels[c])
                      /\ schema[j].v = StrVal(<<"5">>)
           /\ HasKey(schema, UsernameKey)
           /\ Get(schema, UsernameKey) = StrVal(<<>>)
           /\ \A i \in Idx : Keys(gathered[i]) = Keys(schema)


\* C14: no per-file task of score_resumes terminates leaving the temporary
\* file it created on disk, whichever way the task ends.
C14_TaskDeletesTempFile ==
    endpoint = "score" => \A i \in Idx : Finished(i) => temp[i] # "exists"

OneFailedSiblingRunning ==
    /\ endpoint = "score"
    /\ \E i, j \in Idx : tpc[i] = "raised" /\ tpc[j] \in {"new", "reading"}
AllTasksEnded == \A i \in Idx : Finished(i)
AllEndedAndClean == AllTasksEnded /\ \A i \in Idx : temp[i] # "exists"

\* C15: once a task of a batch has failed while a sibling is still under
\* way, every task of the batch ends and every temporary file of the batch
\* is eventually deleted.
C15_SiblingsFinishAndCleanUp == OneFailedSiblingRunning ~> AllEndedAndClean


\* C16: score_resumes totals and serializes nothing while a task of the
\* request is still under way: records are aggregated, and a report
\* returned, only when every task has returned, and once a task has failed
\* no record is aggregated and no total assigned.
C16_AggregationAfterAllTasks ==
    endpoint = "score" =>
        /\ (list_of_scores # <<>> \/ response.status = 200) =>
               \A i \in Idx : tpc[i] = "returned"
        /\ (\E i \in Idx : tpc[i] = "raised") =>
               (list_of_scores = <<>> /\ response.csv = NoCsv)
\* the handler has answered for a failed task while a sibling is still
\* reading its upload, and nothing was aggregated
C16_Witness ==
    /\ endpoint = "score"
    /\ Responded
    /\ \E i, j \in Idx : tpc[i] = "raised" /\ tpc[j] = "reading"
    /\ list_of_scores = <<>>

\* C17: the analysis client is called at most once per input file, on
\* either endpoint, and a failed call is not followed by a second one.
C17_NoRetries ==
    \A i \in Idx :
        /\ llm_calls[i] <= 1
        /\ texc[i] = "analysis" => llm_calls[i] = 1
\* the one call of the client failed and the request was answered
C17_Witness ==
    /\ Responded
    /\ \E i \in Idx : texc[i] = "analysis" /\ llm_calls[i] = 1 /\ temp[i] = "deleted"


\* the score fields of a record: what the analysis returned, but username
ScoreKeys(d) == {d[j].k : j \in {x \in 1..Len(d) : d[x].k # UsernameKey}}

====
